---- MODULE Spec2Model ----
(***************************************************************************)
(* Session / data-synchronisation controller of the bookmark page          *)
(* (src/app/page.tsx, component Home).                                     *)
(*                                                                         *)
(* The component state (user, bookmarks, title, url), the closure variable *)
(* `channel` of the effect, the auth listener, the asynchronous functions  *)
(* suspended on a gateway call, and the backend (session, rows, realtime   *)
(* subscriptions) are the state.  Every step is the synchronous run of one *)
(* function between two awaits, or one reply of the backend.               *)
(***************************************************************************)
EXTENDS Integers, Sequences, FiniteSets, Bags, TLC

\* ---------------------------------------------------------------- bounds
MaxStimuli == 2    \* auth events, clicks and remote inserts in one lifetime
MaxRows == 2       \* rows the backend ever assigns an id to

\* ---------------------------------------------------------------- values
Users == {"A", "B"}
Null  == "null"
NoChannel == 0   \* let channel: RealtimeChannel | null = null
Ids   == 1..MaxRows

VARIABLES
    user,       \* useState<User | null>           page.tsx:16
    bookmarks,  \* useState<Bookmark[]>            page.tsx:17
    title,      \* useState("")                    page.tsx:18
    url,        \* useState("")                    page.tsx:19
    channel,    \* let channel: RealtimeChannel | null   page.tsx:53
    listener,   \* authListener.subscription is attached page.tsx:76,94
    tasks,      \* bag of async functions suspended on an await
    session,    \* backend: the session supabase.auth holds
    rows,       \* backend: table "bookmarks"
    nextId,     \* backend: next id / created_at it assigns
    chans,      \* backend: realtime channels ever subscribed, by handle
    gateway,    \* backend: "strict" applies the filters of a select, "lax"
                \* ignores .eq("user_id", ...) and returns the rows of all users
    last,       \* history: the step taken last
    cleared,    \* history: signOut() completed and no identity set since
    outcome,    \* history: the step taken last handled a gateway error / wrote
                \* it with console.error
    stimuli     \* history: auth events, clicks and remote inserts so far

vars == <<user, bookmarks, title, url, channel, listener, tasks, session,
          rows, nextId, chans, gateway, last, cleared, outcome, stimuli>>

\* interface Bookmark
Bookmark(id, t, u, owner, at) ==
    [id |-> id, title |-> t, url |-> u, user_id |-> owner, created_at |-> at]

\* one suspended async function: which one, the await it is parked on, what
\* it closed over (userId, record id, channel, form fields), and the reply of
\* the gateway ({ data, error }) once it has arrived
Task(kind, pc, uid) ==
    [kind |-> kind, pc |-> pc, uid |-> uid, id |-> 0, h |-> 0,
     title |-> "", url |-> "", data |-> <<>>, err |-> FALSE]

Step(op, uid) == [op |-> op, uid |-> uid]

\* { error } of the reply a step handled, and whether it called console.error
Outcome(err, logged) == [err |-> err, logged |-> logged]

Quiet == Outcome(FALSE, FALSE)

Put(b, t) == b (+) SetToBag({t})

Take(b, t) == b (-) SetToBag({t})

Parked(pc) == {t \in BagToSet(tasks) : t.pc = pc}

\* ------------------------------------------------------------- backend
RECURSIVE OrderAsc(_)
\* OrderDesc with { ascending: true }
OrderAsc(S) ==
    IF S = {} THEN <<>>
    ELSE LET m == CHOOSE r \in S : \A q \in S : r.created_at <= q.created_at
         IN  <<m>> \o OrderAsc(S \ {m})

RECURSIVE OrderDesc(_)
\* .order("created_at", { ascending: false })
OrderDesc(S) ==
    IF S = {} THEN <<>>
    ELSE LET m == CHOOSE r \in S : \A q \in S : q.created_at <= r.created_at
         IN  <<m>> \o OrderDesc(S \ {m})

\* .from("bookmarks").select("*").eq("user_id", userId).order(...)
Select(rws, userId) == OrderDesc({r \in rws : r.user_id = userId})

\* what the backend returns for the select of fetchBookmarks
GatewaySelect(rws, userId) ==
    IF gateway = "lax" THEN OrderDesc(rws) ELSE Select(rws, userId)

\* DeleteFilter without .eq("user_id", user.id)
DeleteFilterById(rws, id, userId) == {r \in rws : r.id = id}

\* .from("bookmarks").delete().eq("id", id).eq("user_id", user.id)
DeleteFilter(rws, id, userId) == {r \in rws : r.id = id /\ r.user_id = userId}

\* handles of the channels that are subscribed for userId
OpenFor(cs, userId) == {h \in 1..Len(cs) : cs[h].open /\ cs[h].userId = userId}

OpenChans(cs) == {h \in 1..Len(cs) : cs[h].open}

\* postgres_changes on a row of userId: one callback pending per channel
\* whose filter user_id=eq.${userId} matches
Notes(cs, userId) ==
    BagOfAll(LAMBDA h : [Task("rt", "note", userId) EXCEPT !.h = h],
             SetToBag(OpenFor(cs, userId)))

\* ------------------------------------------------- functions of the page
\* setupRealtime(userId): supabase.channel(...).on(...).subscribe()
setupRealtime(cs, userId) == Append(cs, [userId |-> userId, open |-> TRUE])

\* supabase.removeChannel(channel)
removeChannel(cs, h) == [cs EXCEPT ![h].open = FALSE]

\* fetchBookmarksDone that appends the reply to the collection
fetchBookmarksDoneMerging(bms, t) == IF t.err THEN bms ELSE bms \o t.data

\* fetchBookmarksDone that empties the collection on an error
fetchBookmarksDoneClearing(bms, t) == IF t.err THEN <<>> ELSE t.data

\* fetchBookmarks after its await: if (error) return ...; setBookmarks(data || [])
fetchBookmarksDone(bms, t) == IF t.err THEN bms ELSE t.data

\* fetchBookmarks(userId) up to its await: the request is answered from the
\* rows of that moment, or with an error; the caller is parked on the reply
fetchBookmarks(kind, userId, ok) ==
    [Task(kind, "selected", userId)
        EXCEPT !.err = ~ok, !.data = IF ok THEN GatewaySelect(rows, userId) ELSE <<>>]

\* addRejected without the test of url
addRejectedNoUrl(ti, ur, us) == ti = "" \/ us = Null

\* if (!title || !url || !user) return;
addRejected(ti, ur, us) == ti = "" \/ ur = "" \/ us = Null

\* ---------------------------------------------------------------- Init
\* the rows a backend can hold after n inserts by sessions of any users
Stored(n) ==
    {S \in SUBSET {Bookmark(i, "T", "http://x", o, i) : i \in 1..n, o \in Users} :
        \A i \in 1..n : Cardinality({r \in S : r.id = i}) = 1}

\* The component has rendered and the effect has run: init() is parked on
\* getSession(), the auth listener is attached, channel is null.
Mounted ==
    /\ user = Null
    /\ bookmarks = <<>>
    /\ title = ""
    /\ url = ""
    /\ channel = NoChannel
    /\ listener = TRUE
    /\ tasks = SetToBag({Task("init", "getSession", Null)})
    /\ session \in Users \cup {Null}
    /\ rows = {}
    /\ nextId = 1
    /\ chans = <<>>
    /\ last = Step("mount", Null)
    /\ cleared = FALSE
    /\ outcome = Quiet
    /\ stimuli = 0

\* the backend enforces the filters of the requests
Init == Mounted /\ gateway = "strict"

\* the backend ignores the owner filter of a select
InitLax == Mounted /\ gateway = "lax"

\* A signed-in page at rest: the backend held rows of earlier sessions at
\* mount, init() has fetched those of the user and opened the subscription,
\* the user has filled in the form, nothing is in flight.
InitStore ==
    /\ user \in Users
    /\ session = user
    /\ \E n \in 0..MaxRows : rows \in Stored(n) /\ nextId = n + 1
    /\ bookmarks = Select(rows, user)
    /\ title = "T"
    /\ url = "http://x"
    /\ chans = setupRealtime(<<>>, user)
    /\ channel = Len(chans)
    /\ listener = TRUE
    /\ tasks = EmptyBag
    /\ gateway = "strict"
    /\ last = Step("initResume", user)
    /\ cleared = FALSE
    /\ outcome = Quiet
    /\ stimuli = 0

\* ------------------------------------------------------- session control
\* init(), from getSession() to the await of fetchBookmarks   page.tsx:57-63
InitSession ==
    \E t \in Parked("getSession"), ok \in BOOLEAN :
        /\ session = Null => ok
        /\ IF session # Null
           THEN /\ user' = session
                /\ cleared' = FALSE
                /\ tasks' = Put(Take(tasks, t), fetchBookmarks("init", session, ok))
                /\ last' = Step("initSession", session)
           ELSE /\ tasks' = Take(tasks, t)
                /\ last' = Step("initNoSession", Null)
                /\ UNCHANGED <<user, cleared>>
        /\ outcome' = Quiet
        /\ UNCHANGED gateway
        /\ UNCHANGED <<bookmarks, title, url, channel, listener, session, rows,
                       nextId, chans, stimuli>>

\* InitResume with the guard of the listener: if (!channel) channel = ...
InitResumeGuarded ==
    \E t \in Parked("selected") :
        /\ t.kind = "init"
        /\ bookmarks' = fetchBookmarksDone(bookmarks, t)
        /\ IF channel = NoChannel
           THEN /\ chans' = setupRealtime(chans, t.uid)
                /\ channel' = Len(chans')
           ELSE UNCHANGED <<chans, channel>>
        /\ tasks' = Take(tasks, t)
        /\ outcome' = Outcome(t.err, t.err)
        /\ UNCHANGED gateway
        /\ last' = Step("initResume", t.uid)
        /\ UNCHANGED <<user, title, url, listener, session, rows, nextId, cleared, stimuli>>

\* init(), after fetchBookmarks: channel = setupRealtime(...)  page.tsx:63-64
InitResume ==
    \E t \in Parked("selected") :
        /\ t.kind = "init"
        /\ bookmarks' = fetchBookmarksDone(bookmarks, t)
        /\ chans' = setupRealtime(chans, t.uid)
        /\ channel' = Len(chans')
        /\ tasks' = Take(tasks, t)
        /\ outcome' = Outcome(t.err, t.err)
        /\ UNCHANGED gateway
        /\ last' = Step("initResume", t.uid)
        /\ UNCHANGED <<user, title, url, listener, session, rows, nextId, cleared, stimuli>>

\* the SIGNED_OUT branch of the listener                      page.tsx:84-88
SignedOutHandler ==
    /\ user' = Null
    /\ bookmarks' = <<>>
    /\ chans' = IF channel # NoChannel THEN removeChannel(chans, channel) ELSE chans

\* the backend reports SIGNED_IN (a login, here or in another tab) or
\* TOKEN_REFRESHED; the listener runs up to its await          page.tsx:78-81
AuthSignedIn ==
    \E ev \in {"SIGNED_IN", "TOKEN_REFRESHED"}, u \in Users, ok \in BOOLEAN :
        /\ ev = "TOKEN_REFRESHED" => session = u
        /\ ~listener => ok
        /\ session' = u
        /\ IF listener
           THEN /\ user' = u
                /\ cleared' = FALSE
                /\ tasks' = Put(tasks, fetchBookmarks("auth", u, ok))
           ELSE UNCHANGED <<user, cleared, tasks>>
        /\ outcome' = Quiet
        /\ UNCHANGED gateway
        /\ last' = Step(IF listener THEN ev ELSE "unheard", u)
        /\ stimuli < MaxStimuli
        /\ stimuli' = stimuli + 1
        /\ UNCHANGED <<bookmarks, title, url, channel, listener, rows, nextId,
                       chans>>

\* the listener, after fetchBookmarks                          page.tsx:81-82
AuthResume ==
    \E t \in Parked("selected") :
        /\ t.kind = "auth"
        /\ bookmarks' = fetchBookmarksDone(bookmarks, t)
        /\ IF channel = NoChannel
           THEN /\ chans' = setupRealtime(chans, t.uid)
                /\ channel' = Len(chans')
           ELSE UNCHANGED <<chans, channel>>
        /\ tasks' = Take(tasks, t)
        /\ outcome' = Outcome(t.err, t.err)
        /\ UNCHANGED gateway
        /\ last' = Step("authResume", t.uid)
        /\ UNCHANGED <<user, title, url, listener, session, rows, nextId, cleared, stimuli>>

\* the backend reports SIGNED_OUT (expiry, or a sign-out in another tab)
AuthSignedOut ==
    /\ session' = Null
    /\ IF listener
       THEN SignedOutHandler
       ELSE UNCHANGED <<user, bookmarks, chans>>
    /\ outcome' = Quiet
    /\ UNCHANGED gateway
    /\ last' = Step(IF listener THEN "SIGNED_OUT" ELSE "unheard", Null)
    /\ stimuli < MaxStimuli
    /\ stimuli' = stimuli + 1
    /\ UNCHANGED <<title, url, channel, listener, tasks, rows, nextId, cleared>>

\* signOut() up to its await; the Logout button is rendered only with a user
\*                                                        page.tsx:118-119,175
SignOut ==
    /\ listener
    /\ user # Null
    /\ tasks' = Put(tasks, Task("signOut", "signOut", user))
    /\ outcome' = Quiet
    /\ UNCHANGED gateway
    /\ last' = Step("signOut", user)
    /\ stimuli < MaxStimuli
    /\ stimuli' = stimuli + 1
    /\ UNCHANGED <<user, bookmarks, title, url, channel, listener, session, rows,
                   nextId, chans, cleared>>

\* SignOutResume that clears only after a successful request
SignOutResumeOnSuccess ==
    \E t \in Parked("signOut"), ok \in BOOLEAN :
        /\ session' = IF ok THEN Null ELSE session
        /\ IF ok /\ listener THEN SignedOutHandler ELSE UNCHANGED chans
        /\ user' = IF ok THEN Null ELSE user
        /\ bookmarks' = IF ok THEN <<>> ELSE bookmarks
        /\ cleared' = TRUE
        /\ tasks' = Take(tasks, t)
        /\ outcome' = Outcome(~ok, FALSE)
        /\ UNCHANGED gateway
        /\ last' = Step(IF ok THEN "signOutOk" ELSE "signOutError", t.uid)
        /\ UNCHANGED <<title, url, channel, listener, rows, nextId, stimuli>>

\* supabase.auth.signOut() returns: on success the client has dropped the
\* session and run the listener with SIGNED_OUT before the call returns; then
\* signOut() goes on: setUser(null); setBookmarks([])     page.tsx:119-121
SignOutResume ==
    \E t \in Parked("signOut"), ok \in BOOLEAN :
        /\ session' = IF ok THEN Null ELSE session
        /\ IF ok /\ listener THEN SignedOutHandler ELSE UNCHANGED chans
        /\ user' = Null
        /\ bookmarks' = <<>>
        /\ cleared' = TRUE
        /\ tasks' = Take(tasks, t)
        /\ outcome' = Outcome(~ok, FALSE)
        /\ UNCHANGED gateway
        /\ last' = Step(IF ok THEN "signOutOk" ELSE "signOutError", t.uid)
        /\ UNCHANGED <<title, url, channel, listener, rows, nextId, stimuli>>

\* signIn() up to its await; the button is rendered only without a user
\*                                                     page.tsx:101-110,158-166
SignIn ==
    /\ listener
    /\ user = Null
    /\ tasks' = Put(tasks, Task("signIn", "signIn", Null))
    /\ outcome' = Quiet
    /\ UNCHANGED gateway
    /\ last' = Step("signIn", Null)
    /\ stimuli < MaxStimuli
    /\ stimuli' = stimuli + 1
    /\ UNCHANGED <<user, bookmarks, title, url, channel, listener, session, rows,
                   nextId, chans, cleared>>

\* signInWithOAuth returns: if (error) console.error(...); the identity is
\* not set here                                           page.tsx:112
SignInResume ==
    \E t \in Parked("signIn"), ok \in BOOLEAN :
        /\ tasks' = Take(tasks, t)
        /\ outcome' = Outcome(~ok, ~ok)
        /\ UNCHANGED gateway
        /\ last' = Step("signInResume", Null)
        /\ UNCHANGED <<user, bookmarks, title, url, channel, listener, session,
                       rows, nextId, chans, cleared, stimuli>>

\* the cleanup the effect returns                             page.tsx:92-95
Teardown ==
    /\ listener
    /\ chans' = IF channel # NoChannel THEN removeChannel(chans, channel) ELSE chans
    /\ listener' = FALSE
    /\ outcome' = Quiet
    /\ UNCHANGED gateway
    /\ last' = Step("teardown", Null)
    /\ UNCHANGED <<user, bookmarks, title, url, channel, tasks, session, rows,
                   nextId, cleared, stimuli>>

\* --------------------------------------------------------- bookmark store
\* a postgres_changes callback runs: () => fetchBookmarks(userId); a channel
\* that was removed meanwhile delivers nothing              page.tsx:41-45
Notify ==
    \E t \in Parked("note"), ok \in BOOLEAN :
        /\ ~chans[t.h].open => ok
        /\ tasks' = IF chans[t.h].open
                    THEN Put(Take(tasks, t), fetchBookmarks("rt", t.uid, ok))
                    ELSE Take(tasks, t)
        /\ outcome' = Quiet
        /\ UNCHANGED gateway
        /\ last' = Step(IF chans[t.h].open THEN "notify" ELSE "notifyDropped", t.uid)
        /\ UNCHANGED <<user, bookmarks, title, url, channel, listener, session,
                       rows, nextId, chans, cleared, stimuli>>

\* fetchBookmarks started by a change notification completes  page.tsx:31-32
RtResume ==
    \E t \in Parked("selected") :
        /\ t.kind = "rt"
        /\ bookmarks' = fetchBookmarksDone(bookmarks, t)
        /\ tasks' = Take(tasks, t)
        /\ outcome' = Outcome(t.err, t.err)
        /\ UNCHANGED gateway
        /\ last' = Step("rtResume", t.uid)
        /\ UNCHANGED <<user, title, url, channel, listener, session, rows, nextId,
                       chans, cleared, stimuli>>

\* onChange of the two inputs, rendered only with a user   page.tsx:182-195
Type ==
    \E ti \in {"", "T"}, ur \in {"", "http://x"} :
        /\ listener
        /\ user # Null
        /\ <<ti, ur>> # <<title, url>>
        /\ title' = ti
        /\ url' = ur
        /\ outcome' = Quiet
        /\ UNCHANGED gateway
        /\ last' = Step("type", user)
        /\ UNCHANGED <<user, bookmarks, channel, listener, tasks, session, rows,
                       nextId, chans, cleared, stimuli>>

\* addBookmark() up to its await; the backend stores the row, or fails, and
\* a stored row is announced on the channels of its owner   page.tsx:127-132
AddBookmark ==
    \E ok \in BOOLEAN :
        /\ listener
        /\ IF addRejected(title, url, user)
           THEN /\ ok
                /\ last' = Step("addRejected", user)
                /\ UNCHANGED <<tasks, rows, nextId>>
           ELSE /\ ok => nextId <= MaxRows
                /\ rows' = IF ok
                           THEN rows \cup {Bookmark(nextId, title, url, user, nextId)}
                           ELSE rows
                /\ nextId' = IF ok THEN nextId + 1 ELSE nextId
                /\ tasks' = Put(tasks, [Task("add", "inserted", user) EXCEPT !.err = ~ok])
                                (+) (IF ok THEN Notes(chans, user) ELSE EmptyBag)
                /\ last' = Step(IF ok THEN "addBookmark" ELSE "addError", user)
        /\ outcome' = Quiet
        /\ UNCHANGED gateway
        /\ stimuli < MaxStimuli
        /\ stimuli' = stimuli + 1
        /\ UNCHANGED <<user, bookmarks, title, url, channel, listener, session,
                       chans, cleared>>

\* addBookmark() after its await                            page.tsx:134-137
AddResume ==
    \E t \in Parked("inserted") :
        /\ IF t.err
           THEN UNCHANGED <<title, url>>
           ELSE title' = "" /\ url' = ""
        /\ tasks' = Take(tasks, t)
        /\ outcome' = Outcome(t.err, t.err)
        /\ UNCHANGED gateway
        /\ last' = Step("addResume", t.uid)
        /\ UNCHANGED <<user, bookmarks, channel, listener, session, rows, nextId,
                       chans, cleared, stimuli>>

\* deleteBookmark(id) up to its await, with the id of a record the backend
\* has stored at some time; the backend removes the rows that match both
\* filters, or fails, and announces a removal on the channels of the owner
\*                                                          page.tsx:143-150
DeleteBookmark ==
    \E id \in Ids, ok \in BOOLEAN :
        /\ listener
        /\ id < nextId
        /\ IF user = Null
           THEN /\ ok
                /\ last' = Step("deleteRejected", user)
                /\ UNCHANGED <<tasks, rows>>
           ELSE LET gone == IF ok THEN DeleteFilter(rows, id, user) ELSE {}
                    notes == IF gone = {} THEN EmptyBag ELSE Notes(chans, user)
                IN  /\ rows' = rows \ gone
                    /\ tasks' = Put(tasks, [Task("del", "deleted", user)
                                               EXCEPT !.id = id, !.err = ~ok])
                                    (+) notes
                    /\ last' = Step(IF ok THEN "deleteBookmark" ELSE "deleteError", user)
        /\ outcome' = Quiet
        /\ UNCHANGED gateway
        /\ stimuli < MaxStimuli
        /\ stimuli' = stimuli + 1
        /\ UNCHANGED <<user, bookmarks, title, url, channel, listener, session,
                       nextId, chans, cleared>>

\* DeleteResume that returns without fetching
DeleteResumeNoRefresh ==
    \E t \in Parked("deleted"), ok \in BOOLEAN :
        /\ ok
        /\ tasks' = Take(tasks, t)
        /\ outcome' = Outcome(t.err, FALSE)
        /\ UNCHANGED gateway
        /\ last' = Step("deleteResume", t.uid)
        /\ UNCHANGED <<user, bookmarks, title, url, channel, listener, session,
                       rows, nextId, chans, cleared, stimuli>>

\* deleteBookmark after its await: if (!error) await fetchBookmarks(user.id)
\*                                                          page.tsx:152
DeleteResume ==
    \E t \in Parked("deleted"), ok \in BOOLEAN :
        /\ t.err => ok
        /\ tasks' = IF t.err
                    THEN Take(tasks, t)
                    ELSE Put(Take(tasks, t), fetchBookmarks("del", t.uid, ok))
        /\ outcome' = Outcome(t.err, FALSE)
        /\ UNCHANGED gateway
        /\ last' = Step("deleteResume", t.uid)
        /\ UNCHANGED <<user, bookmarks, title, url, channel, listener, session,
                       rows, nextId, chans, cleared, stimuli>>

\* deleteBookmark, after its fetchBookmarks                 page.tsx:31-32
DeleteFetched ==
    \E t \in Parked("selected") :
        /\ t.kind = "del"
        /\ bookmarks' = fetchBookmarksDone(bookmarks, t)
        /\ tasks' = Take(tasks, t)
        /\ outcome' = Outcome(t.err, t.err)
        /\ UNCHANGED gateway
        /\ last' = Step("deleteFetched", t.uid)
        /\ UNCHANGED <<user, title, url, channel, listener, session, rows, nextId,
                       chans, cleared, stimuli>>

\* another session of some user stores a row
RemoteInsert ==
    \E u \in Users :
        /\ nextId <= MaxRows
        /\ rows' = rows \cup {Bookmark(nextId, "T", "http://x", u, nextId)}
        /\ nextId' = nextId + 1
        /\ tasks' = tasks (+) Notes(chans, u)
        /\ outcome' = Quiet
        /\ UNCHANGED gateway
        /\ last' = Step("remoteInsert", u)
        /\ stimuli < MaxStimuli
        /\ stimuli' = stimuli + 1
        /\ UNCHANGED <<user, bookmarks, title, url, channel, listener, session,
                       chans, cleared>>

\* ---------------------------------------------------------------- Spec
Next ==
    \/ InitSession
    \/ InitResume
    \/ AuthSignedIn
    \/ AuthResume
    \/ AuthSignedOut
    \/ SignOut
    \/ SignOutResume
    \/ SignIn
    \/ SignInResume
    \/ Teardown
    \/ Notify
    \/ RtResume
    \/ Type
    \/ AddBookmark
    \/ AddResume
    \/ DeleteBookmark
    \/ DeleteResume
    \/ DeleteFetched
    \/ RemoteInsert

Spec == Init /\ [][Next]_vars

\* the bookmark store of a signed-in page: no auth event, no unmount, no
\* further typing
NextStore ==
    \/ Notify
    \/ RtResume
    \/ AddBookmark
    \/ AddResume
    \/ DeleteBookmark
    \/ DeleteResume
    \/ DeleteFetched
    \/ RemoteInsert

SpecStore == InitStore /\ [][NextStore]_vars

\* the same page against a gateway that ignores the owner filter
SpecLax == InitLax /\ [][Next]_vars

\* ------------------------------------------------- fetchBookmarks alone
\* A signed-in page at rest, nothing in flight: the backend holds the rows of
\* some earlier inserts and the collection is what an earlier fetch for the
\* user returned.
InitRefresh ==
    /\ user \in Users
    /\ session = user
    /\ \E n \in 0..MaxRows : rows \in Stored(n) /\ nextId = n + 1
    /\ \E S \in SUBSET rows : bookmarks = Select(S, user)
    /\ title = ""
    /\ url = ""
    /\ channel = NoChannel
    /\ listener = TRUE
    /\ tasks = EmptyBag
    /\ chans = <<>>
    /\ gateway = "strict"
    /\ last = Step("mount", Null)
    /\ cleared = FALSE
    /\ outcome = Quiet
    /\ stimuli = 0

\* fetchBookmarks(user.id) from call to return with no other step between
\* request and reply; a successful call that directly follows a successful
\* call is recorded as such                                  page.tsx:24-33
Refresh ==
    \E ok \in BOOLEAN :
        LET t == fetchBookmarks("refresh", user, ok)
        IN  /\ bookmarks' = fetchBookmarksDone(bookmarks, t)
            /\ outcome' = Outcome(t.err, t.err)
            /\ last' = Step(IF ~ok THEN "refreshFailed"
                            ELSE IF last.op \in {"refreshed", "refreshedAgain"}
                                 THEN "refreshedAgain" ELSE "refreshed", user)
            /\ stimuli < MaxStimuli
            /\ stimuli' = stimuli + 1
            /\ UNCHANGED <<user, title, url, channel, listener, tasks, session, rows,
                           nextId, chans, gateway, cleared>>

NextRefresh ==
    \/ Refresh
    \/ RemoteInsert

SpecRefresh == InitRefresh /\ [][NextRefresh]_vars

\* ------------------------------------------------------------- claims
AddOps == {"addBookmark", "addError", "addRejected"}

DeleteOps == {"deleteBookmark", "deleteError", "deleteRejected"}

\* the steps in which a fetchBookmarks call gets its reply and returns
FetchDoneOps == {"initResume", "authResume", "rtResume", "deleteFetched"}

\* C1: in every reachable state at most one change subscription is open.
C1_SingleSubscription == Cardinality(OpenChans(chans)) <= 1

\* C2: once signOut() has completed, the identity is unset and the collection
\* is empty until an auth event or init() sets an identity again, whatever
\* fetch was in flight.
C2_SignOutStaysCleared == cleared => (user = Null /\ bookmarks = <<>>)

\* C3: every record of the local collection is owned by the current identity
\* (so the collection is empty while the identity is unset).
C3_CollectionOwnedByUser ==
    \A i \in 1..Len(bookmarks) : bookmarks[i].user_id = user

\* C4: when the handler of SIGNED_IN / TOKEN_REFRESHED finishes, a change
\* subscription for the user of the event is open; stated for the handlers
\* that finish with the identity still that user.
C4_SignedInHasSubscription ==
    (last.op = "authResume" /\ user = last.uid) => OpenFor(chans, last.uid) # {}

\* C5: right after the SIGNED_OUT handler the identity is unset, the
\* collection is empty and no change subscription is open.
C5_SignedOutClosesAll ==
    last.op = "SIGNED_OUT" =>
        (user = Null /\ bookmarks = <<>> /\ OpenChans(chans) = {})

\* C6: every open change subscription is scoped to the current identity.
C6_SubscriptionScopedToUser ==
    \A h \in OpenChans(chans) : chans[h].userId = user

\* C7: once the cleanup has run (the listener is detached) no change
\* subscription is open, then or later.
C7_TeardownLeavesNothingOpen == ~listener => OpenChans(chans) = {}

\* C8 as claimed: when init() finishes after a lookup with a user, the
\* identity is that user and a subscription for that user is open; after a
\* lookup without a session the identity is unset and the collection empty.
C8_InitPostState ==
    /\ last.op = "initResume" => (user = last.uid /\ OpenFor(chans, last.uid) # {})
    /\ last.op = "initNoSession" => (user = Null /\ bookmarks = <<>>)

\* C8, amended: init() sets the identity to the user of the lookup when the
\* lookup returns and is then parked on a fetch for that user, opening
\* nothing yet; when it finishes it opens exactly one subscription, for that
\* user, keeps it in `channel`, and does not touch the identity; after a
\* lookup without a session it changes neither identity nor collection,
\* opens no subscription and is over.
C8_InitEffects ==
    [][ /\ last'.op = "initSession" =>
            /\ user' = last'.uid
            /\ user' = session
            /\ \E t \in BagToSet(tasks') :
                   t.kind = "init" /\ t.pc = "selected" /\ t.uid = user'
            /\ UNCHANGED <<chans, channel>>
        /\ last'.op = "initResume" =>
            /\ Len(chans') = Len(chans) + 1
            /\ OpenChans(chans') = OpenChans(chans) \cup {Len(chans')}
            /\ chans'[Len(chans')].userId = last'.uid
            /\ channel' = Len(chans')
            /\ user' = user
            /\ \A t \in BagToSet(tasks') : t.kind # "init"
        /\ last'.op = "initNoSession" =>
            /\ session = Null
            /\ UNCHANGED <<user, bookmarks, chans, channel>>
            /\ \A t \in BagToSet(tasks') : t.kind # "init"
      ]_vars

\* init() has finished after a lookup with a user while the identity was
\* changed under it
C8_Witness ==
    /\ last.op = "initResume"
    /\ user # last.uid
    /\ channel # NoChannel
    /\ chans[channel] = [userId |-> last.uid, open |-> TRUE]

\* C9: addBookmark with an empty title, an empty url or no user issues no
\* insert and changes neither collection, identity nor server rows.
C9_AddValidation ==
    [][ (last'.op \in AddOps /\ (title = "" \/ url = "" \/ user = Null)) =>
            UNCHANGED <<tasks, rows, nextId, bookmarks, user, title, url>>
      ]_vars

\* addBookmark was called by a user with a title and no url
C9_Witness ==
    last.op = "addRejected" /\ user # Null /\ title = "T" /\ url = ""

\* C10: deleteBookmark removes no server row whose owner differs from the
\* identity of the caller, and with no identity it issues no request.
C10_DeleteOwnRowsOnly ==
    [][ last'.op \in DeleteOps =>
            /\ \A r \in rows \ rows' : r.user_id = user
            /\ user = Null => UNCHANGED <<rows, tasks>>
      ]_vars

\* deleteBookmark was called with the id of a row of another user, which is
\* still stored
C10_Witness ==
    /\ last.op = "deleteBookmark"
    /\ \E t \in BagToSet(tasks), r \in rows :
           /\ t.kind = "del" /\ ~t.err
           /\ t.uid = last.uid
           /\ r.id = t.id
           /\ r.user_id # t.uid

C13_ErrorsLogged == outcome.err => outcome.logged

C19_WholesaleOnly ==
    [][ /\ bookmarks' # bookmarks =>
              \/ /\ bookmarks' = <<>>
                 /\ last'.op \in {"SIGNED_OUT", "signOutOk", "signOutError"}
              \/ /\ last'.op \in FetchDoneOps
                 /\ \E t \in Parked("selected") :
                        /\ ~t.err
                        /\ CopiesIn(t, tasks') < CopiesIn(t, tasks)
                        /\ bookmarks' = t.data
        /\ last'.op \in AddOps \cup {"addResume", "notify", "notifyDropped", "remoteInsert"}
              => bookmarks' = bookmarks
      ]_vars

\* addBookmark has stored a row and returned, and the collection does not
\* hold that row
C19_Witness ==
    /\ last.op = "addResume" /\ ~outcome.err
    /\ \E r \in rows : r.user_id = last.uid /\ \A i \in 1..Len(bookmarks) : bookmarks[i] # r

\* C20: when signOut() goes on after the request, identity and collection
\* are cleared whether the request succeeded or failed; after a failed
\* request the backend session and the subscriptions are as they were.
C20_SignOutAlwaysClears ==
    [][ /\ last'.op \in {"signOutOk", "signOutError"} =>
              (user' = Null /\ bookmarks' = <<>>)
        /\ last'.op = "signOutError" => UNCHANGED <<session, chans, channel>>
        /\ last'.op = "signOut" => UNCHANGED <<session, chans, channel>>
      ]_vars

\* the sign-out request failed: locally anonymous, the backend session and a
\* subscription of the old user still live
C20_Witness ==
    /\ last.op = "signOutError"
    /\ user = Null /\ bookmarks = <<>>
    /\ session = last.uid
    /\ OpenFor(chans, last.uid) # {}

\* C17, for two refreshes started by change notifications: when both get a
\* successful reply one right after the other, for the current user of the
\* mounted page, and nothing is in flight after the second, the collection is
\* the server's current rows of that user.
C17_RefreshesConverge ==
    [][ ( /\ last.op = "rtResume" /\ ~outcome.err
          /\ last'.op = "rtResume" /\ ~outcome'.err
          /\ last'.uid = last.uid
          /\ user' = last'.uid
          /\ listener
          /\ tasks' = EmptyBag )
        => /\ {bookmarks'[i] : i \in 1..Len(bookmarks')} = {r \in rows' : r.user_id = user'}
           /\ Len(bookmarks') = Cardinality({r \in rows' : r.user_id = user'})
      ]_vars

\* C18: on the mounted page with a user, once no notification, fetch or other
\* call is in flight (so that nothing more happens without a further action
\* or event) and the reply handled last was no failure, every server row of
\* that user is in the collection.
C18_InsertedRecordsAppear ==
    (listener /\ user # Null /\ tasks = EmptyBag /\ ~outcome.err) =>
        \A r \in rows : r.user_id = user =>
            \E i \in 1..Len(bookmarks) : bookmarks[i] = r

\* C15: the collection a successful fetchBookmarks(userId) produces holds no
\* record whose owner differs from userId, also against a gateway that
\* ignores the owner filter.
C15_RefreshFiltersOwner ==
    (last.op \in FetchDoneOps /\ ~outcome.err) =>
        \A i \in 1..Len(bookmarks) : bookmarks[i].user_id = last.uid

\* C16: a successful fetchBookmarks(userId) that directly follows a
\* successful fetchBookmarks(userId), with no step of the backend in between,
\* leaves the collection as the first call left it.
C16_RefreshIdempotent ==
    [][ last'.op = "refreshedAgain" =>
            (last.op \in {"refreshed", "refreshedAgain"} /\ bookmarks' = bookmarks)
      ]_vars

\* the second of two successive fetches returned, the collection holds
\* records and the backend also holds a row of another user
C16_Witness ==
    /\ last.op = "refreshedAgain"
    /\ bookmarks # <<>>
    /\ \E r \in rows : r.user_id # user

\* C11: a delete the backend accepted removes the row of the caller with
\* that id; when deleteBookmark goes on it starts a fetch for the caller,
\* whose successful reply is the caller's remaining rows newest first without
\* the deleted record; and the step that handles the reply makes it the
\* collection, so that with no mutation since the read the collection is the
\* server's remaining rows of the caller.
C11_DeleteRefreshes ==
    [][ /\ last'.op = "deleteBookmark" =>
              \E d \in BagToSet(tasks') :
                  /\ d.kind = "del" /\ d.pc = "deleted" /\ ~d.err /\ d.uid = user
                  /\ CopiesIn(d, tasks') > CopiesIn(d, tasks)
                  /\ rows' = {r \in rows : ~(r.id = d.id /\ r.user_id = user)}
        /\ (last'.op = "deleteResume" /\ ~outcome'.err) =>
              \E d \in Parked("deleted"), f \in BagToSet(tasks') :
                  /\ ~d.err /\ CopiesIn(d, tasks') < CopiesIn(d, tasks)
                  /\ f.kind = "del" /\ f.pc = "selected" /\ f.uid = d.uid
                  /\ CopiesIn(f, tasks') > CopiesIn(f, tasks)
                  /\ ~f.err =>
                        /\ \A i \in 1..Len(f.data) : f.data[i].id # d.id
                        /\ {f.data[i] : i \in 1..Len(f.data)}
                               = {r \in rows : r.user_id = d.uid}
                        /\ \A i \in 1..(Len(f.data) - 1) :
                               f.data[i].created_at > f.data[i + 1].created_at
        /\ (last'.op = "deleteFetched" /\ ~outcome'.err) =>
              \E f \in Parked("selected") :
                  /\ f.kind = "del" /\ ~f.err /\ f.uid = last'.uid
                  /\ CopiesIn(f, tasks') < CopiesIn(f, tasks)
                  /\ bookmarks' = f.data
                  /\ {f.data[i] : i \in 1..Len(f.data)} = {r \in rows : r.user_id = f.uid}
                     => /\ {bookmarks'[i] : i \in 1..Len(bookmarks')}
                              = {r \in rows' : r.user_id = f.uid}
                        /\ Len(bookmarks') = Cardinality({r \in rows' : r.user_id = f.uid})
      ]_vars

\* the backend held [B, A] of the user, A was deleted, and the refresh of
\* deleteBookmark has left [B]
C11_Witness ==
    /\ last.op = "deleteFetched" /\ ~outcome.err
    /\ user = last.uid
    /\ nextId = 3
    /\ rows = {Bookmark(2, "T", "http://x", user, 2)}
    /\ bookmarks = <<Bookmark(2, "T", "http://x", user, 2)>>
    /\ stimuli = 1

====
